---- MODULE Spec2Model ----
(***************************************************************************)
(* Receipty: the job queue (queue.ts), the job repository (jobs.ts), the   *)
(* printer client (printer.ts) and the HTTP handlers of server.ts that     *)
(* drive them.  A step of the model is one run-to-completion segment of    *)
(* the Node event loop: the code between two awaits, or one socket, file   *)
(* or timer callback.                                                      *)
(***************************************************************************)
EXTENDS Naturals, Integers, Sequences, FiniteSets, TLC

\* ---------------------------------------------------------------- bounds
MaxJobs == 3        \* rows ever inserted into the jobs table
MaxFaults == 3      \* device errors and timeouts injected in one behaviour
MaxRestarts == 1    \* process restarts in one behaviour
MaxProbes == 3      \* printer.status() calls in one behaviour
MaxText == 3        \* characters of a text handed to the encoder
MaxFeedLines == 3   \* feed lines configured (FEED_LINES + CUT_FEED_LINES)
MaxStatusBytes == 5 \* bytes handed to the status decoder
MaxControls == 2    \* POST /api/control/* requests in one behaviour

\* ------------------------------------------------------------- constants
DEFAULT_RETRIES == 2
DEFAULT_THRESHOLD == 128
STATUS_BYTES == 4

Modes == {"ethernet", "usbPath", "usbId"}
ControlCommands == {"feed", "cut", "status"}
NoJob == 0

VARIABLES
  printerMode,   \* config.printerMode, with the USB mode split on usbDevicePath
  jobs,          \* the jobs table: jobs[id] = [status, error, text, image]
  processing,    \* JobQueue.processing
  pendingKick,   \* JobQueue.pendingKick
  loops,         \* live processLoop activations, each suspended at an await
  kicksDue,      \* HTTP handlers suspended between `await queueJob` and queue.kick()
  ops,           \* the runExclusive chain of print/control operations, head first
  orphans,       \* sockets and devices no operation refers to any more, still open
  attemptLog,    \* history: per job, the number of transport attempts and the latest outcome
  started,       \* history: processLoop activations started by the latest step
  faults,        \* history: device errors and timeouts so far
  restarts,      \* history: process restarts so far
  controls,      \* history: control requests so far
  cutMode,       \* config.cutMode
  reply,         \* history: how the latest printer.control(...) call settled
  probes,        \* printer.status() calls: in flight, or settled with their result
  queueJobResult, \* how the latest `await queueJob(...)` of a handler settled
  calc,          \* a payload encoder or the status decoder applied to an input
  repoThrows     \* the JobRepository calls that throw at present (database error)

vars == <<printerMode, jobs, processing, pendingKick, loops, kicksDue, ops,
          orphans, attemptLog, started, faults, restarts, controls,
          cutMode, reply, probes, queueJobResult, calc, repoThrows>>

\* ---------------------------------------------------------------- errors
NullError == [kind |-> "null", of |-> ""]

ErrorObj(msg) == [isError |-> TRUE, stack |-> TRUE, message |-> msg]

\* error instanceof Error ? error.stack || error.message : String(error)
ErrorMessage(e) ==
  IF e.isError
    THEN IF e.stack THEN [kind |-> "stack", of |-> e.message]
                    ELSE [kind |-> "message", of |-> e.message]
    ELSE [kind |-> "string", of |-> e.message]

OkResult == [isError |-> FALSE, stack |-> FALSE, message |-> "ok"]

ConnectErrors == {"ECONNREFUSED"}
WriteErrors == {"EPIPE"}
OpenErrors == {"ENOENT"}
SQLITE_BUSY == "SQLITE_BUSY: database is locked"
RepoCalls == {"nextQueued", "updateStatus"}
ReadErrors == {"ECONNRESET"}

\* -------------------------------------------------------- status decoder
Min(a, b) == IF a < b THEN a ELSE b
Bit(byte, i) == (byte \div (2 ^ i)) % 2

\* the classes of escpos/statuses in the order STATUS_CLASSES lists them;
\* the same order as the DLE EOT 1, 4, 2, 3 queries of STATUS_REQUEST
STATUS_CLASSES ==
  <<"PrinterStatus", "RollPaperSensorStatus", "OfflineCauseStatus",
    "ErrorCauseStatus">>

\* escpos/statuses: what each class reports for the bits of its DLE EOT
\* byte, and the level of the entry when all the bits of the group are set
StatusBits(className) ==
  CASE className = "PrinterStatus" ->
         <<[bits |-> {2}, level |-> "ok"], [bits |-> {3}, level |-> "error"],
           [bits |-> {5}, level |-> "warning"], [bits |-> {6}, level |-> "warning"]>>
    [] className = "RollPaperSensorStatus" ->
         <<[bits |-> {2, 3}, level |-> "warning"], [bits |-> {5, 6}, level |-> "error"]>>
    [] className = "OfflineCauseStatus" ->
         <<[bits |-> {2}, level |-> "error"], [bits |-> {3}, level |-> "error"],
           [bits |-> {5}, level |-> "error"], [bits |-> {6}, level |-> "error"]>>
    [] className = "ErrorCauseStatus" ->
         <<[bits |-> {2}, level |-> "error"], [bits |-> {3}, level |-> "error"],
           [bits |-> {5}, level |-> "error"], [bits |-> {6}, level |-> "error"]>>

\* new StatusClass(byte).toJSON()
toJSON(className, byte) ==
  LET table == StatusBits(className)
      entry(e) == [bits |-> e.bits,
                   value |-> [b \in e.bits |-> Bit(byte, b)],
                   status |-> IF \A b \in e.bits : Bit(byte, b) = 1
                                THEN e.level ELSE "ok"]
  IN  [className |-> className, byte |-> byte,
       statuses |-> [k \in 1..Len(table) |-> entry(table[k])]]

\* reports.every(report => report.statuses.every(entry => entry.status !== 'error'))
reportOk(reports) ==
  \A i \in 1..Len(reports) :
    \A k \in 1..Len(reports[i].statuses) :
      reports[i].statuses[k].status # "error"

parseStatusBytes_NoPadding(bytes) ==
  LET raw == SubSeq(bytes, 1, Min(Len(bytes), Len(STATUS_CLASSES)))
      reports == [i \in 1..Len(raw) |-> toJSON(STATUS_CLASSES[i], raw[i])]
  IN  [ok |-> reportOk(reports), raw |-> raw, statuses |-> reports]

parseStatusBytes(bytes) ==
  LET raw == SubSeq(bytes, 1, Min(Len(bytes), Len(STATUS_CLASSES)))
      reports == [i \in 1..Len(STATUS_CLASSES) |->
                    toJSON(STATUS_CLASSES[i], IF i <= Len(raw) THEN raw[i] ELSE 0)]
  IN  [ok |-> reportOk(reports), raw |-> raw, statuses |-> reports]

\* ------------------------------------------------------- payload encoder
\* A string is the sequence of its UTF-16 code units, a Buffer the sequence
\* of its bytes.
LF == <<10>>
Hello == <<72, 101, 108, 108, 111>>

\* Buffer.from(text, 'ascii'): one byte per code unit, its low 8 bits
ascii(text) == [i \in 1..Len(text) |-> text[i] % 256]

endsWithNewline(text) == Len(text) > 0 /\ text[Len(text)] = 10

buildEscPosTextPayload_AlwaysAppend(text, allowEmpty) ==
  IF Len(text) = 0
    THEN IF allowEmpty THEN ascii(LF) ELSE <<>>
    ELSE ascii(text \o LF)

buildEscPosTextPayload(text, allowEmpty) ==
  IF Len(text) = 0
    THEN IF allowEmpty THEN ascii(LF) ELSE <<>>
    ELSE ascii(IF endsWithNewline(text) THEN text ELSE text \o LF)

buildEscPosFooter_FullAlsoPartial(feedLines, mode) ==
  (IF feedLines > 0 THEN [i \in 1..feedLines |-> 10] ELSE <<>>)
    \o (IF mode = "full" THEN <<29, 86, 0>> ELSE <<>>)
    \o (IF mode # "none" THEN <<29, 86, 1>> ELSE <<>>)

buildEscPosFooter(feedLines, mode) ==
  (IF feedLines > 0 THEN [i \in 1..feedLines |-> 10] ELSE <<>>)
    \o (IF mode = "full" THEN <<29, 86, 0>> ELSE <<>>)
    \o (IF mode = "partial" THEN <<29, 86, 1>> ELSE <<>>)

\* An uploaded image is what sharp makes of it: an error when the buffer
\* cannot be decoded, else the flattened, resized, greyscale raster whose
\* pixel i is black when i is a multiple of `dark`, white otherwise
NoImage == [given |-> FALSE, decodable |-> FALSE, width |-> 0, height |-> 0, dark |-> 0]
Undecodable == [NoImage EXCEPT !.given = TRUE]
Raster(w, h, dark) == [given |-> TRUE, decodable |-> TRUE, width |-> w, height |-> h, dark |-> dark]

\* data[pixelIndex] of sharp(image)...raw().toBuffer()
data(image, pixelIndex) ==
  IF image.dark > 0 /\ pixelIndex % image.dark = 0 THEN 0 ELSE 255

bytesPerRow(width) == (width + 7) \div 8

\* the byte of `raster` at byteIndex once the two loops are through
rasterByte(image, byteIndex) ==
  LET bpr == bytesPerRow(image.width)
      y == byteIndex \div bpr
      x0 == 8 * (byteIndex % bpr)
      bit(k) == IF x0 + k < image.width
                   /\ data(image, y * image.width + x0 + k) < DEFAULT_THRESHOLD
                  THEN 2 ^ (7 - k) ELSE 0
  IN  bit(0) + bit(1) + bit(2) + bit(3) + bit(4) + bit(5) + bit(6) + bit(7)

rasterHeader(bpr, height) ==
  <<29, 118, 48, 0, bpr % 256, (bpr \div 256) % 256,
    height % 256, (height \div 256) % 256>>

Thrown(message) == [threw |-> TRUE, message |-> message, payload |-> <<>>]
Returned(payload) == [threw |-> FALSE, message |-> "", payload |-> payload]

buildEscPosImagePayload(image) ==
  IF ~image.decodable
    THEN Thrown("Input buffer contains unsupported image format")
  ELSE IF image.width = 0 \/ image.height = 0
    THEN Thrown("Unable to read image dimensions.")
  ELSE LET bpr == bytesPerRow(image.width)
           raster == [b \in 1..(bpr * image.height) |-> rasterByte(image, b - 1)]
       IN  Returned(rasterHeader(bpr, image.height) \o raster)

\* queueJob passes text: undefined for '': both are the empty sequence here
buildEscPosJobPayload_Placeholder(text, image, feedLines, mode) ==
  LET textBytes == buildEscPosTextPayload(text, TRUE)
      imageResult == IF image.given THEN buildEscPosImagePayload(image)
                                    ELSE Returned(<<>>)
  IN  IF imageResult.threw THEN imageResult
      ELSE Returned(textBytes \o imageResult.payload
                      \o buildEscPosFooter(feedLines, mode))

buildEscPosJobPayload(text, image, feedLines, mode) ==
  LET textBytes == IF Len(text) > 0 THEN buildEscPosTextPayload(text, FALSE)
                                    ELSE <<>>
      imageResult == IF image.given THEN buildEscPosImagePayload(image)
                                    ELSE Returned(<<>>)
  IN  IF imageResult.threw THEN imageResult
      ELSE Returned(textBytes \o imageResult.payload
                      \o buildEscPosFooter(feedLines, mode))

\* ------------------------------------------------------------ repository
\* SELECT * FROM jobs WHERE status = 'queued' ORDER BY id ASC LIMIT 1
nextQueued(js) ==
  LET queued == {i \in 1..Len(js) : js[i].status = "queued"}
  IN  IF queued = {} THEN NoJob
      ELSE CHOOSE i \in queued : \A k \in queued : i <= k

\* UPDATE jobs SET status = ?, error = ?, updated_at = ? WHERE id = ?
updateStatus_NullAsText(js, id, status, error) ==
  [js EXCEPT ![id] = [@ EXCEPT !.status = status,
                               !.error = IF error = NullError
                                           THEN [kind |-> "string", of |-> "null"]
                                           ELSE error]]

updateStatus(js, id, status, error) ==
  [js EXCEPT ![id] = [@ EXCEPT !.status = status, !.error = error]]

\* INSERT INTO jobs (text, image_data, ...) VALUES (..., 'queued', ..., NULL):
\* the new row gets the next id of the AUTOINCREMENT key
insert(js, text, image) ==
  Append(js, [status |-> "queued", error |-> NullError,
              text |-> text, image |-> image])

\* SELECT * FROM jobs WHERE id = ?
getById(js, id) == js[id]

\* ------------------------------------------------------------- job queue
\* The queue operators act on the record q of everything a synchronous
\* segment of queue.ts reads or writes.
RECURSIVE kick(_), processLoop(_), loopIteration(_), finally(_)

NewOp(kind, job, cmd) ==
  [kind |-> kind, job |-> job, cmd |-> cmd, phase |-> "queued",
   attempt |-> 0, sent |-> 0, wire |-> <<>>, buffer |-> <<>>, sock |-> "none",
   timer |-> "none", err |-> OkResult]

\* processJob up to `await this.printer.print(...)`
processJob_NoPrinting(q, job) ==
  [q EXCEPT !.ops = Append(@, NewOp("print", job, "none")),
            !.loops = @ \cup {[job |-> job, pc |-> "print", res |-> OkResult]}]

\* updateStatus(job.id, 'printing') stands before the try: when it throws
\* the promise of processJob is rejected and nothing was printed
processJob(q, job) ==
  IF "updateStatus" \in repoThrows
    THEN [q EXCEPT !.loops = @ \cup {[job |-> job, pc |-> "resume",
                                      res |-> ErrorObj(SQLITE_BUSY)]}]
    ELSE [q EXCEPT !.jobs = updateStatus(@, job, "printing", NullError),
                   !.ops = Append(@, NewOp("print", job, "none")),
                   !.loops = @ \cup {[job |-> job, pc |-> "print", res |-> OkResult]}]

kick_NoGuard(q) == processLoop(q)

kick(q) ==
  IF q.processing
    THEN [q EXCEPT !.pendingKick = TRUE]
    ELSE processLoop(q)

processLoop(q) ==
  loopIteration([q EXCEPT !.processing = TRUE, !.runs = @ + 1])

\* one pass of `while (true)` up to the await, or out through `finally`
loopIteration_ThrowSkipsFinally(q) ==
  LET job == nextQueued(q.jobs)
  IN  IF "nextQueued" \in repoThrows THEN q
      ELSE IF job = NoJob THEN finally(q) ELSE processJob(q, job)

loopIteration(q) ==
  LET job == nextQueued(q.jobs)
  IN  IF "nextQueued" \in repoThrows THEN finally(q)
      ELSE IF job = NoJob THEN finally(q) ELSE processJob(q, job)

finally(q) ==
  LET q1 == [q EXCEPT !.processing = FALSE]
  IN  IF q1.pendingKick
        THEN kick([q1 EXCEPT !.pendingKick = FALSE])
        ELSE q1

Q == [jobs |-> jobs, processing |-> processing, pendingKick |-> pendingKick,
      loops |-> loops, ops |-> ops, reply |-> reply, runs |-> 0]

SetQ(q) ==
  /\ jobs' = q.jobs
  /\ processing' = q.processing
  /\ pendingKick' = q.pendingKick
  /\ loops' = q.loops
  /\ ops' = q.ops
  /\ reply' = q.reply
  /\ started' = q.runs

\* --------------------------------------------------------- printer client
HeadOp == ops[1]
Active == Len(ops) > 0 /\ HeadOp.phase # "queued"
EthernetMode == printerMode = "ethernet"

\* DLE EOT 1, DLE EOT 4, DLE EOT 2, DLE EOT 3
STATUS_REQUEST == <<16, 4, 1, 16, 4, 4, 16, 4, 2, 16, 4, 3>>

buildFeedPayload(feedLines) ==
  LET lines == IF feedLines > 1 THEN feedLines ELSE 1
  IN  [i \in 1..lines |-> 10]

buildCutPayload(feedLines, mode) ==
  (IF feedLines > 0 THEN [i \in 1..feedLines |-> 10] ELSE <<>>)
    \o (IF mode = "full" THEN <<29, 86, 0>> ELSE <<>>)
    \o (IF mode = "partial" THEN <<29, 86, 1>> ELSE <<>>)

\* executeEthernetControl: what is written before the status request, with
\* FEED_LINES and CUT_FEED_LINES both at the configured bound
commandPayload(command) ==
  IF command = "feed" THEN buildFeedPayload(MaxFeedLines)
  ELSE IF command = "cut" THEN buildCutPayload(MaxFeedLines, cutMode)
  ELSE <<>>

\* writeSocketPayload: an empty payload is not written; wire is the list
\* of payloads the socket of the current attempt has been handed
writeSocketPayload(wire, payload) ==
  IF Len(payload) = 0 THEN wire ELSE Append(wire, payload)

\* what a control operation resolves with (ControlResult)
NoReport == [ok |-> FALSE, raw |-> <<>>, statuses |-> <<>>]

ControlResult(confirmed, hasStatus, status, error) ==
  [confirmed |-> confirmed, hasStatus |-> hasStatus, status |-> status,
   error |-> error]

controlUnsupported ==
  ControlResult(FALSE, FALSE, NoReport,
    "Printer control confirmation is not available in USB mode; command not sent.")

cutDisabled ==
  ControlResult(FALSE, FALSE, NoReport,
    "Cutting is disabled because CUT_MODE is set to none.")

\* createEthernetPrinter.control after `await retryNetwork(...)` returned status
controlConfirmation_OkOnly(command, status) ==
  IF status.ok
    THEN ControlResult(TRUE, TRUE, status, "")
    ELSE ControlResult(FALSE, TRUE, status,
           "Printer responded with an error while confirming the command.")

controlConfirmation(command, status) ==
  IF command = "status" THEN ControlResult(TRUE, TRUE, status, "")
  ELSE IF status.ok THEN ControlResult(TRUE, TRUE, status, "")
  ELSE ControlResult(FALSE, TRUE, status,
         "Printer responded with an error while confirming the command.")

Resolved(value) ==
  [isError |-> FALSE, stack |-> FALSE, message |-> "ok", value |-> value]

NoResult == ControlResult(FALSE, FALSE, NoReport, "")

\* POST /api/control/{feed,cut,status}: try { return await printer.control(cmd) }
controlHandler_NoCatch(result) ==
  IF result.isError
    THEN [code |-> 500, body |-> NoResult]
    ELSE [code |-> 200, body |-> result.value]

controlHandler(result) ==
  IF result.isError
    THEN [code |-> 502,
          body |-> ControlResult(FALSE, FALSE, NoReport, result.message)]
    ELSE [code |-> 200, body |-> result.value]

\* how the promise of printer.control(cmd) settles, after `attempt` retries,
\* and what the awaiting handler answers
controlSettled(cmd, attempt, result) ==
  [cmd |-> cmd, attempt |-> attempt,
   rejected |-> result.isError,
   error |-> IF result.isError THEN result.message ELSE "",
   value |-> IF result.isError THEN NoResult ELSE result.value,
   response |-> controlHandler(result)]

NoReply ==
  [cmd |-> "none", attempt |-> 0, rejected |-> FALSE, error |-> "",
   value |-> NoResult, response |-> [code |-> 0, body |-> NoResult]]

\* the operation at the head of the runExclusive chain settles: the chain
\* moves on and, for a print, the awaiting processJob gets the result
settle_RejectionStalls(q, result) ==
  LET h == q.ops[1]
  IN  [q EXCEPT
        !.ops = IF result.isError
                  THEN [i \in 1..(Len(@) - 1) |-> [@[i + 1] EXCEPT !.phase = "stalled"]]
                  ELSE Tail(@),
        !.reply = IF h.kind = "control"
                    THEN controlSettled(h.cmd, h.attempt, result)
                    ELSE @,
        !.loops = IF h.kind = "print"
                    THEN {IF l.job = h.job /\ l.pc = "print"
                            THEN [l EXCEPT !.pc = "settled", !.res = result]
                            ELSE l : l \in @}
                    ELSE @]

settle(q, result) ==
  LET h == q.ops[1]
  IN  [q EXCEPT
        !.ops = Tail(@),
        !.reply = IF h.kind = "control"
                    THEN controlSettled(h.cmd, h.attempt, result)
                    ELSE @,
        !.loops = IF h.kind = "print"
                    THEN {IF l.job = h.job /\ l.pc = "print"
                            THEN [l EXCEPT !.pc = "settled", !.res = result]
                            ELSE l : l \in @}
                    ELSE @]

setHead(q, op) == [q EXCEPT !.ops = [@ EXCEPT ![1] = op]]

\* retryNetwork: `if (attempt >= DEFAULT_RETRIES) throw error`
retryExhausted(attempt) == attempt >= DEFAULT_RETRIES

\* retryNetwork's catch block, entered when an attempt rejects with msg
retryNetwork_FirstError(q, msg) ==
  LET h == q.ops[1]
  IN  IF retryExhausted(h.attempt)
        THEN settle(q, IF h.err.isError THEN h.err ELSE ErrorObj(msg))
        ELSE setHead(q, [h EXCEPT !.phase = "backoff", !.timer = "sleep",
                                  !.sock = "none",
                                  !.err = IF h.err.isError THEN h.err ELSE ErrorObj(msg)])

retryNetwork(q, msg) ==
  LET h == q.ops[1]
  IN  IF retryExhausted(h.attempt)
        THEN settle(q, ErrorObj(msg))
        ELSE setHead(q, [h EXCEPT !.phase = "backoff", !.timer = "sleep",
                                  !.sock = "none", !.err = ErrorObj(msg)])

\* writeEthernetPayload / connectSocket up to the first await: a new
\* socket, connect() issued under withTimeout(connectTimeout)
startAttempt(h) ==
  [h EXCEPT !.phase = "connect", !.sock = "connecting", !.timer = "connect",
            !.wire = <<>>, !.buffer = <<>>]

logAttempt(log, h, outcome) ==
  IF h.kind = "print"
    THEN [log EXCEPT ![h.job] = [n |-> @.n + 1, last |-> outcome]]
    ELSE log

Fault == faults < MaxFaults /\ faults' = faults + 1

Aside == UNCHANGED <<cutMode, probes, queueJobResult, calc, repoThrows>>

QueueOnly ==
  /\ UNCHANGED <<printerMode, kicksDue, orphans, attemptLog, faults,
                 restarts, controls>>
  /\ Aside

\* ------------------------------------------------------- actions: server
\* POST /api/print, POST /api/jobs/:id/reprint: queueJob inserts the row;
\* the handler resumes after `await queueJob(...)` to call queue.kick()
Submit ==
  /\ Len(jobs) < MaxJobs
  /\ jobs' = insert(jobs, Hello, NoImage)
  /\ attemptLog' = Append(attemptLog, [n |-> 0, last |-> "none"])
  /\ kicksDue' = kicksDue + 1
  /\ queueJobResult' = [threw |-> FALSE, jobId |-> Len(jobs) + 1,
                        source |-> NoJob]
  /\ started' = 0
  /\ UNCHANGED <<printerMode, processing, pendingKick, loops, ops, orphans,
                 faults, restarts, controls, cutMode, reply, probes, calc,
                 repoThrows>>

\* queueJob: the payload is built first, for its length; repo.insert follows
queueJob_InsertFirst(js, text, image) ==
  [jobs |-> insert(js, text, image),
   threw |-> buildEscPosJobPayload(text, image, MaxFeedLines, cutMode).threw]

queueJob(js, text, image) ==
  LET payload == buildEscPosJobPayload(text, image, MaxFeedLines, cutMode)
  IN  IF payload.threw THEN [jobs |-> js, threw |-> TRUE]
                       ELSE [jobs |-> insert(js, text, image), threw |-> FALSE]

\* The part the handlers of POST /api/print and POST /api/jobs/:id/reprint
\* share: await queueJob(...); when it throws the handler answers 400 and
\* returns before queue.kick()
queueAndKick(text, image, source) ==
  /\ Len(jobs) < MaxJobs
  /\ LET r == queueJob(jobs, text, image)
     IN  /\ jobs' = r.jobs
         /\ queueJobResult' =
              [threw |-> r.threw,
               jobId |-> IF r.threw THEN NoJob ELSE Len(r.jobs),
               source |-> source]
         /\ attemptLog' = IF Len(r.jobs) > Len(jobs)
                            THEN Append(attemptLog, [n |-> 0, last |-> "none"])
                            ELSE attemptLog
         /\ kicksDue' = IF r.threw THEN kicksDue ELSE kicksDue + 1
  /\ started' = 0
  /\ UNCHANGED <<printerMode, processing, pendingKick, loops, ops, orphans,
                 faults, restarts, controls, cutMode, reply, probes, calc,
                 repoThrows>>

\* POST /api/print with an image
SubmitImage(image) == queueAndKick(Hello, image, NoJob)

\* utils.ts sanitizeText: CRLF and CR become LF, then only LF, TAB and the
\* printable ASCII characters are kept
RECURSIVE normalizeNewlines(_)
normalizeNewlines(input) ==
  IF input = <<>> THEN <<>>
  ELSE IF input[1] = 13 /\ Len(input) > 1 /\ input[2] = 10
         THEN <<10>> \o normalizeNewlines(SubSeq(input, 3, Len(input)))
  ELSE IF input[1] = 13 THEN <<10>> \o normalizeNewlines(Tail(input))
  ELSE <<input[1]>> \o normalizeNewlines(Tail(input))

sanitizeText(input) ==
  SelectSeq(normalizeNewlines(input),
            LAMBDA code : code = 10 \/ code = 9 \/ (code >= 32 /\ code <= 126))

\* what the reprint handler hands to queueJob: the stored text, sanitized
\* again, and the stored image
reprintContent_TextOnly(job) ==
  [text |-> sanitizeText(job.text), image |-> NoImage]

reprintContent(job) ==
  [text |-> sanitizeText(job.text), image |-> job.image]

\* POST /api/jobs/:id/reprint: 404 without the row, 400 when the stored
\* text sanitizes to nothing and there is no image, else a new job is
\* queued with the content of job id and the queue is kicked
Reprint(id) ==
  LET job == getById(jobs, id)
  IN  /\ id \in 1..Len(jobs)
      /\ LET content == reprintContent(job)
         IN  /\ ~(Len(job.text) > 0 /\ Len(content.text) = 0 /\ ~job.image.given)
             /\ queueAndKick(content.text, content.image, id)

HandlerKick ==
  /\ kicksDue > 0
  /\ kicksDue' = kicksDue - 1
  /\ SetQ(kick(Q))
  /\ UNCHANGED <<printerMode, orphans, attemptLog, faults, restarts, controls>>
  /\ Aside

\* POST /api/control/{feed,cut,status}: printer.control(cmd) -> runExclusive
ControlRequest(cmd) ==
  /\ controls < MaxControls
  /\ controls' = controls + 1
  /\ ops' = Append(ops, NewOp("control", NoJob, cmd))
  /\ started' = 0
  /\ UNCHANGED <<printerMode, jobs, processing, pendingKick, loops, kicksDue,
                 orphans, attemptLog, faults, restarts, reply>>
  /\ Aside

\* -------------------------------------------------------- actions: queue
\* processJob after `await this.printer.print(...)`: try / catch
processJobSettled_NoCatch(q, l) ==
  IF l.res.isError
    THEN [q EXCEPT !.loops = (@ \ {l}) \cup {[l EXCEPT !.pc = "resume"]}]
    ELSE [q EXCEPT
           !.jobs = updateStatus(@, l.job, "succeeded", NullError),
           !.loops = (@ \ {l}) \cup {[l EXCEPT !.pc = "resume", !.res = OkResult]}]

\* when updateStatus throws, in the try or in the catch, the catch block
\* is left by that exception and processJob rejects with it
processJobSettled(q, l) ==
  IF "updateStatus" \in repoThrows
    THEN [q EXCEPT !.loops = (@ \ {l}) \cup
                     {[l EXCEPT !.pc = "resume", !.res = ErrorObj(SQLITE_BUSY)]}]
    ELSE [q EXCEPT
           !.jobs = IF l.res.isError
                      THEN updateStatus(@, l.job, "failed", ErrorMessage(l.res))
                      ELSE updateStatus(@, l.job, "succeeded", NullError),
           !.loops = (@ \ {l}) \cup {[l EXCEPT !.pc = "resume", !.res = OkResult]}]

ProcessJobResume ==
  /\ \E l \in loops :
       /\ l.pc = "settled"
       /\ SetQ(processJobSettled(Q, l))
  /\ QueueOnly

\* processLoop after `await this.processJob(job)`: next pass, or, when
\* processJob rejected, straight to `finally`
loopResumed_OneShot(q, l) == finally([q EXCEPT !.loops = @ \ {l}])

loopResumed(q, l) ==
  LET q1 == [q EXCEPT !.loops = @ \ {l}]
  IN  IF l.res.isError THEN finally(q1) ELSE loopIteration(q1)

LoopResume ==
  /\ \E l \in loops :
       /\ l.pc = "resume"
       /\ SetQ(loopResumed(Q, l))
  /\ QueueOnly

\* ----------------------------------------------- actions: operation chain
PrinterOnly ==
  /\ UNCHANGED <<printerMode, kicksDue, restarts, controls>>
  /\ Aside

\* runExclusive: tail.then(action, action) runs the next action once the
\* previous operation has settled
opStart_ControlSent(q) ==
  LET h == q.ops[1]
  IN  IF printerMode = "ethernet"
        THEN setHead(q, startAttempt(h))
        ELSE setHead(q, [h EXCEPT !.phase = "open", !.sock = "opening"])

opStart(q) ==
  LET h == q.ops[1]
  IN  IF printerMode = "ethernet"
        THEN IF h.kind = "control" /\ h.cmd = "cut" /\ cutMode = "none"
          \* createEthernetPrinter.control: cutting is disabled, nothing is sent
          THEN settle(q, Resolved(cutDisabled))
          ELSE setHead(q, startAttempt(h))
        ELSE IF h.kind = "control"
          \* createUsbPrinter: control: async () => controlUnsupported
          THEN settle(q, Resolved(controlUnsupported))
          \* writeToDevicePath: fs.open(path, 'w'); writeUsbViaEscpos: device.open(cb)
          ELSE setHead(q, [h EXCEPT !.phase = "open", !.sock = "opening"])

OpStart ==
  /\ Len(ops) > 0
  /\ HeadOp.phase = "queued"
  /\ SetQ(opStart(Q))
  /\ UNCHANGED <<orphans, attemptLog, faults>>
  /\ PrinterOnly

\* ----------------------------------------------------- actions: ethernet
\* socket.connect callback: writeEthernetPayload goes on to socket.write,
\* executeEthernetControl to the command payload or the status request
connected_RequestFirst(h) ==
  [h EXCEPT !.sock = "open", !.timer = "write",
            !.phase = IF h.kind = "print" THEN "write" ELSE "writeReq"]

connected(h) ==
  [h EXCEPT !.sock = "open", !.timer = "write",
            !.phase = IF h.kind = "print" THEN "write"
                      ELSE IF h.cmd = "status" THEN "writeReq" ELSE "writeCmd"]

EthConnected ==
  /\ Active /\ EthernetMode /\ HeadOp.phase = "connect"
  /\ SetQ(setHead(Q, connected(HeadOp)))
  /\ UNCHANGED <<orphans, attemptLog, faults>>
  /\ PrinterOnly

\* socket 'error' while connecting: socket.destroy(); reject(error)
EthConnectError(e) ==
  /\ Active /\ EthernetMode /\ HeadOp.phase = "connect"
  /\ Fault
  /\ attemptLog' = logAttempt(attemptLog, HeadOp, e)
  /\ SetQ(retryNetwork(Q, e))
  /\ UNCHANGED orphans
  /\ PrinterOnly

\* withTimeout(connect) fires: the rejection leaves the socket connecting
connectTimedOut(o) == [o EXCEPT !.connecting = @ + 1]

EthConnectTimeout ==
  /\ Active /\ EthernetMode /\ HeadOp.phase = "connect"
  /\ HeadOp.timer = "connect"
  /\ Fault
  /\ attemptLog' = logAttempt(attemptLog, HeadOp, "ethernet connect timeout")
  /\ SetQ(retryNetwork(Q, "ethernet connect timeout"))
  /\ orphans' = connectTimedOut(orphans)
  /\ PrinterOnly

\* writeEthernetPayload: socket.write callback without error, socket.end()
EthWriteDone ==
  /\ Active /\ EthernetMode /\ HeadOp.phase = "write"
  /\ attemptLog' = logAttempt(attemptLog, HeadOp, "ok")
  /\ SetQ(settle(Q, OkResult))
  /\ UNCHANGED <<orphans, faults>>
  /\ PrinterOnly

\* executeEthernetControl: the command payload is written, STATUS_REQUEST next
EthCommandWritten ==
  /\ Active /\ EthernetMode /\ HeadOp.phase = "writeCmd"
  /\ SetQ(setHead(Q, [HeadOp EXCEPT
            !.phase = "writeReq", !.sent = @ + 1,
            !.wire = writeSocketPayload(@, commandPayload(HeadOp.cmd))]))
  /\ UNCHANGED <<orphans, attemptLog, faults>>
  /\ PrinterOnly

\* executeEthernetControl: STATUS_REQUEST is written, readSocketBytes next
EthRequestWritten ==
  /\ Active /\ EthernetMode /\ HeadOp.phase = "writeReq"
  /\ SetQ(setHead(Q, [HeadOp EXCEPT
            !.phase = "read", !.timer = "read",
            !.wire = writeSocketPayload(@, STATUS_REQUEST)]))
  /\ UNCHANGED <<orphans, attemptLog, faults>>
  /\ PrinterOnly

\* socket 'error' / write callback with an error: the socket is destroyed
\* (the error listener in writeEthernetPayload, `finally` in executeEthernetControl)
EthWriteError(e) ==
  /\ Active /\ EthernetMode
  /\ HeadOp.phase \in {"write", "writeCmd", "writeReq"}
  /\ Fault
  /\ attemptLog' = logAttempt(attemptLog, HeadOp, e)
  /\ SetQ(retryNetwork(Q, e))
  /\ UNCHANGED orphans
  /\ PrinterOnly

\* withTimeout(write) fires: writeEthernetPayload throws before socket.end();
\* executeEthernetControl's `finally` ends and destroys the socket
writeTimedOut(o, h) ==
  IF h.kind = "print" THEN [o EXCEPT !.writing = @ + 1] ELSE o

EthWriteTimeout ==
  /\ Active /\ EthernetMode
  /\ HeadOp.phase \in {"write", "writeCmd", "writeReq"}
  /\ HeadOp.timer = "write"
  /\ Fault
  /\ attemptLog' = logAttempt(attemptLog, HeadOp, "ethernet write timeout")
  /\ SetQ(retryNetwork(Q, "ethernet write timeout"))
  /\ orphans' = writeTimedOut(orphans, HeadOp)
  /\ PrinterOnly

\* what the printer answers to STATUS_REQUEST: all clear; roll paper near
\* its end; offline with the cover open
StatusResponses == {<<18, 18, 18, 18>>, <<18, 30, 18, 18>>, <<26, 18, 22, 18>>}

\* readSocketBytes: STATUS_BYTES bytes accumulated; `finally` destroys the socket
\* readSocketBytes, the 'data' listener: the chunk is appended to what
\* has arrived and the promise resolves with the first `length` bytes once
\* there are that many
onData_AnyChunk(buffer, chunk, length) ==
  [buffer |-> buffer \o chunk, resolved |-> TRUE,
   bytes |-> SubSeq(buffer \o chunk, 1, Min(length, Len(buffer \o chunk)))]

onData(buffer, chunk, length) ==
  LET all == buffer \o chunk
  IN  IF Len(all) >= length
        THEN [buffer |-> all, resolved |-> TRUE, bytes |-> SubSeq(all, 1, length)]
        ELSE [buffer |-> all, resolved |-> FALSE, bytes |-> <<>>]

\* a chunk of the printer's answer arrives while readSocketBytes listens
EthReadDone(chunk) ==
  /\ Active /\ EthernetMode /\ HeadOp.phase = "read"
  /\ LET r == onData(HeadOp.buffer, chunk, STATUS_BYTES)
     IN  SetQ(IF r.resolved
                THEN settle(Q, Resolved(controlConfirmation(
                                 HeadOp.cmd, parseStatusBytes(r.bytes))))
                ELSE setHead(Q, [HeadOp EXCEPT !.buffer = r.buffer]))
  /\ UNCHANGED <<orphans, attemptLog, faults>>
  /\ PrinterOnly

\* readSocketBytes: 'close' before STATUS_BYTES bytes
EthReadClosed ==
  /\ Active /\ EthernetMode /\ HeadOp.phase = "read"
  /\ Fault
  /\ SetQ(retryNetwork(Q, "socket closed before status response"))
  /\ UNCHANGED <<orphans, attemptLog>>
  /\ PrinterOnly

\* readSocketBytes: socket 'error' before STATUS_BYTES bytes
EthReadError(e) ==
  /\ Active /\ EthernetMode /\ HeadOp.phase = "read"
  /\ Fault
  /\ SetQ(retryNetwork(Q, e))
  /\ UNCHANGED <<orphans, attemptLog>>
  /\ PrinterOnly

EthReadTimeout ==
  /\ Active /\ EthernetMode /\ HeadOp.phase = "read"
  /\ HeadOp.timer = "read"
  /\ Fault
  /\ SetQ(retryNetwork(Q, "ethernet status read timeout"))
  /\ UNCHANGED <<orphans, attemptLog>>
  /\ PrinterOnly

\* retryNetwork: `await sleep(backoff)` is over, attempt += 1, action() again
BackoffDone ==
  /\ Active /\ EthernetMode /\ HeadOp.phase = "backoff"
  /\ SetQ(setHead(Q, startAttempt([HeadOp EXCEPT !.attempt = @ + 1])))
  /\ UNCHANGED <<orphans, attemptLog, faults>>
  /\ PrinterOnly

\* a socket abandoned while connecting: its once('error') listener destroys
\* it, or it connects and nobody ends it
OrphanConnectFails ==
  /\ orphans.connecting > 0
  /\ orphans' = [orphans EXCEPT !.connecting = @ - 1]
  /\ started' = 0
  /\ UNCHANGED <<printerMode, jobs, processing, pendingKick, loops, kicksDue,
                 ops, attemptLog, faults, restarts, controls, reply>>
  /\ Aside

OrphanConnects ==
  /\ orphans.connecting > 0
  /\ orphans' = [orphans EXCEPT !.connecting = @ - 1, !.open = @ + 1]
  /\ started' = 0
  /\ UNCHANGED <<printerMode, jobs, processing, pendingKick, loops, kicksDue,
                 ops, attemptLog, faults, restarts, controls, reply>>
  /\ Aside

\* a socket abandoned by a write timeout keeps the payload socket.write
\* queued on it: the write completes and the socket stays open, or the
\* socket fails and its once('error') listener destroys it
OrphanWrites ==
  /\ orphans.writing > 0
  /\ orphans' = [orphans EXCEPT !.writing = @ - 1, !.open = @ + 1]
  /\ started' = 0
  /\ UNCHANGED <<printerMode, jobs, processing, pendingKick, loops, kicksDue,
                 ops, attemptLog, faults, restarts, controls, reply>>
  /\ Aside

OrphanWriteFails ==
  /\ orphans.writing > 0
  /\ orphans' = [orphans EXCEPT !.writing = @ - 1]
  /\ started' = 0
  /\ UNCHANGED <<printerMode, jobs, processing, pendingKick, loops, kicksDue,
                 ops, attemptLog, faults, restarts, controls, reply>>
  /\ Aside

\* ---------------------------------------------------------- actions: usb
UsbPath == printerMode = "usbPath"
UsbId == printerMode = "usbId"

\* writeToDevicePath: fs.open resolved; handle.write under withTimeout
UsbOpenDone ==
  /\ Active /\ UsbPath /\ HeadOp.phase = "open"
  /\ SetQ(setHead(Q, [HeadOp EXCEPT !.phase = "write", !.sock = "open",
                                    !.timer = "write"]))
  /\ UNCHANGED <<orphans, attemptLog, faults>>
  /\ PrinterOnly

\* writeToDevicePath: fs.open rejected; createUsbPrinter.print does not retry
UsbOpenError(e) ==
  /\ Active /\ UsbPath /\ HeadOp.phase = "open"
  /\ Fault
  /\ attemptLog' = logAttempt(attemptLog, HeadOp, e)
  /\ SetQ(settle(Q, ErrorObj(e)))
  /\ UNCHANGED orphans
  /\ PrinterOnly

\* writeToDevicePath: the write settled or timed out; `finally` awaits handle.close()
usbWriteEnded(h, result) ==
  [h EXCEPT !.phase = "close", !.timer = "none", !.err = result]

UsbWriteDone ==
  /\ Active /\ UsbPath /\ HeadOp.phase = "write"
  /\ SetQ(setHead(Q, usbWriteEnded(HeadOp, OkResult)))
  /\ UNCHANGED <<orphans, attemptLog, faults>>
  /\ PrinterOnly

UsbWriteError(e) ==
  /\ Active /\ UsbPath /\ HeadOp.phase = "write"
  /\ Fault
  /\ SetQ(setHead(Q, usbWriteEnded(HeadOp, ErrorObj(e))))
  /\ UNCHANGED <<orphans, attemptLog>>
  /\ PrinterOnly

UsbWriteTimeout ==
  /\ Active /\ UsbPath /\ HeadOp.phase = "write"
  /\ HeadOp.timer = "write"
  /\ Fault
  /\ SetQ(setHead(Q, usbWriteEnded(HeadOp, ErrorObj("usb write timeout"))))
  /\ UNCHANGED <<orphans, attemptLog>>
  /\ PrinterOnly

\* writeToDevicePath: handle.close() resolved, the write's outcome surfaces
UsbCloseDone ==
  /\ Active /\ UsbPath /\ HeadOp.phase = "close"
  /\ attemptLog' = logAttempt(attemptLog, HeadOp, HeadOp.err.message)
  /\ SetQ(settle(Q, HeadOp.err))
  /\ UNCHANGED <<orphans, faults>>
  /\ PrinterOnly

\* writeUsbViaEscpos: device.open callback without error: raw, close, resolve
UsbDeviceOpened ==
  /\ Active /\ UsbId /\ HeadOp.phase = "open"
  /\ attemptLog' = logAttempt(attemptLog, HeadOp, "ok")
  /\ SetQ(settle(Q, OkResult))
  /\ UNCHANGED <<orphans, faults>>
  /\ PrinterOnly

\* writeUsbViaEscpos: device.open callback with an error
UsbDeviceOpenError(e) ==
  /\ Active /\ UsbId /\ HeadOp.phase = "open"
  /\ Fault
  /\ attemptLog' = logAttempt(attemptLog, HeadOp, e)
  /\ SetQ(settle(Q, ErrorObj(e)))
  /\ UNCHANGED orphans
  /\ PrinterOnly

\* ------------------------------------------------- actions: status probe
\* printer.status() is baseClient.status itself: it does not go through
\* runExclusive.  Up to the first await: fs.access(devicePath), or
\* probeUsb / connectProbe under withTimeout(connectTimeoutMs)
probeStart(mode) ==
  [phase |-> CASE mode = "usbPath" -> "access"
               [] mode = "usbId" -> "open"
               [] mode = "ethernet" -> "connect",
   timer |-> IF mode = "usbPath" THEN "none" ELSE "connect",
   outcome |-> OkResult,
   result |-> [rejected |-> FALSE, connected |-> FALSE, error |-> ""]]

\* status: try { await probe; return {connected: true, ...} }
\*         catch (error) { return {connected: false, details: {..., error}} }
status_NoCatch(outcome) ==
  IF outcome.isError
    THEN [rejected |-> TRUE, connected |-> FALSE, error |-> ""]
    ELSE [rejected |-> FALSE, connected |-> TRUE, error |-> ""]

status(outcome) ==
  IF outcome.isError
    THEN [rejected |-> FALSE, connected |-> FALSE, error |-> outcome.message]
    ELSE [rejected |-> FALSE, connected |-> TRUE, error |-> ""]

probeSettled(p, outcome) ==
  [p EXCEPT !.phase = "settled", !.timer = "none", !.outcome = outcome,
            !.result = status(outcome)]

\* createPrinter: status is baseClient.status, not wrapped in runExclusive
Probing_Exclusive(i) ==
  i \in 1..Len(probes) /\ probes[i].phase # "settled" /\ ops = <<>>

Probing(i) == i \in 1..Len(probes) /\ probes[i].phase # "settled"

ProbeOnly ==
  UNCHANGED <<printerMode, jobs, processing, pendingKick, loops, kicksDue,
              ops, attemptLog, restarts, controls, cutMode, reply,
              queueJobResult, calc, repoThrows>>

\* GET /api/status and the pages: getPrinterStatus -> printer.status()
StatusRequest ==
  /\ Len(probes) < MaxProbes
  /\ probes' = Append(probes, probeStart(printerMode))
  /\ started' = 0
  /\ UNCHANGED <<orphans, faults>>
  /\ ProbeOnly

\* fs.access resolved; device.open called back without error (device.close());
\* socket.connect called back (socket.end())
ProbeDone(i) ==
  /\ Probing(i)
  /\ probes' = [probes EXCEPT ![i] = probeSettled(@, OkResult)]
  /\ started' = 0
  /\ UNCHANGED <<orphans, faults>>
  /\ ProbeOnly

\* fs.access rejected; device.open called back with an error; socket 'error'
ProbeError(i, e) ==
  /\ Probing(i)
  /\ Fault
  /\ probes' = [probes EXCEPT ![i] = probeSettled(@, ErrorObj(e))]
  /\ started' = 0
  /\ UNCHANGED orphans
  /\ ProbeOnly

probeTimeoutMessage(mode) ==
  IF mode = "ethernet" THEN "ethernet connect timeout" ELSE "usb connect timeout"

\* withTimeout fires first: connectProbe leaves its socket connecting
ProbeTimeout(i) ==
  /\ Probing(i)
  /\ probes[i].timer = "connect"
  /\ Fault
  /\ probes' = [probes EXCEPT
                  ![i] = probeSettled(@, ErrorObj(probeTimeoutMessage(printerMode)))]
  /\ orphans' = IF EthernetMode THEN connectTimedOut(orphans) ELSE orphans
  /\ started' = 0
  /\ ProbeOnly

\* ------------------------------------------------------ actions: process
\* The process stops (every socket and handle goes with it) and server.ts
\* runs again on the same database: new JobQueue, queue.start()
start_RequeuePrinting(q) ==
  kick([q EXCEPT !.jobs = [id \in 1..Len(@) |->
                             IF @[id].status = "printing"
                               THEN [@[id] EXCEPT !.status = "queued"]
                               ELSE @[id]]])

start(q) == kick(q)

Restart ==
  /\ restarts < MaxRestarts
  /\ restarts' = restarts + 1
  /\ SetQ(start([jobs |-> jobs, processing |-> FALSE, pendingKick |-> FALSE,
                 loops |-> {}, ops |-> <<>>, reply |-> reply,
                 runs |-> 0]))
  /\ kicksDue' = 0
  /\ orphans' = [connecting |-> 0, writing |-> 0, open |-> 0]
  /\ UNCHANGED <<printerMode, attemptLog, faults, controls>>
  /\ Aside

\* ---------------------------------------------------------- specification
CutModes == {"none", "partial", "full"}
NoCalc == [fn |-> "none", for |-> "none"]

Boot(cuts) ==
  /\ printerMode \in Modes
  /\ cutMode \in cuts
  /\ reply = NoReply
  /\ probes = <<>>
  /\ queueJobResult = [threw |-> FALSE, jobId |-> NoJob, source |-> NoJob]
  /\ calc = NoCalc
  /\ repoThrows = {}
  /\ jobs = <<>>
  /\ processing = FALSE
  /\ pendingKick = FALSE
  /\ loops = {}
  /\ kicksDue = 0
  /\ ops = <<>>
  /\ orphans = [connecting |-> 0, writing |-> 0, open |-> 0]
  /\ attemptLog = <<>>
  /\ started = 1
  /\ faults = 0
  /\ restarts = 0
  /\ controls = 0

\* CUT_MODE is left at its default
Init == Boot({"partial"})

\* PRINTER_MODE=ethernet
EthernetInit == Init /\ EthernetMode

\* the job queue, the print path of both transports and the process
QueueNext ==
  \/ Submit
  \/ HandlerKick
  \/ ProcessJobResume
  \/ LoopResume
  \/ OpStart
  \/ EthConnected
  \/ \E e \in ConnectErrors : EthConnectError(e)
  \/ EthConnectTimeout
  \/ EthWriteDone
  \/ \E e \in WriteErrors : EthWriteError(e)
  \/ EthWriteTimeout
  \/ BackoffDone
  \/ OrphanConnectFails
  \/ OrphanConnects
  \/ UsbOpenDone
  \/ \E e \in OpenErrors : UsbOpenError(e)
  \/ UsbWriteDone
  \/ \E e \in WriteErrors : UsbWriteError(e)
  \/ UsbWriteTimeout
  \/ UsbCloseDone
  \/ UsbDeviceOpened
  \/ \E e \in OpenErrors : UsbDeviceOpenError(e)

Next ==
  \/ QueueNext
  \/ Restart

Spec == Init /\ [][Next]_vars

\* the control operations of POST /api/control/* in one process lifetime
ControlNext ==
  \/ \E cmd \in ControlCommands : ControlRequest(cmd)
  \/ OpStart
  \/ EthConnected
  \/ \E e \in ConnectErrors : EthConnectError(e)
  \/ EthConnectTimeout
  \/ EthCommandWritten
  \/ EthRequestWritten
  \/ \E e \in WriteErrors : EthWriteError(e)
  \/ EthWriteTimeout
  \/ \E bytes \in StatusResponses : EthReadDone(bytes)
  \/ EthReadClosed
  \/ \E e \in ReadErrors : EthReadError(e)
  \/ EthReadTimeout
  \/ BackoffDone
  \/ OrphanConnectFails
  \/ OrphanConnects

\* submissions with an image, which sharp may fail to decode, printed
\* over Ethernet
SubmitNext ==
  \/ Submit
  \/ \E image \in {Undecodable, Raster(8, 1, 1)} : SubmitImage(image)
  \/ HandlerKick
  \/ ProcessJobResume
  \/ LoopResume
  \/ OpStart
  \/ EthConnected
  \/ \E e \in ConnectErrors : EthConnectError(e)
  \/ EthWriteDone
  \/ \E e \in WriteErrors : EthWriteError(e)
  \/ BackoffDone

SpecSubmit == EthernetInit /\ [][SubmitNext]_vars

\* submissions and resubmissions of jobs printed over Ethernet
ReprintNext ==
  \/ Submit
  \/ SubmitImage(Raster(8, 1, 1))
  \/ \E id \in 1..Len(jobs) : Reprint(id)
  \/ HandlerKick
  \/ ProcessJobResume
  \/ LoopResume
  \/ OpStart
  \/ EthConnected
  \/ \E e \in ConnectErrors : EthConnectError(e)
  \/ EthWriteDone
  \/ \E e \in WriteErrors : EthWriteError(e)
  \/ BackoffDone

SpecReprint == EthernetInit /\ [][ReprintNext]_vars

\* the status probes of GET /api/status in one process lifetime
StatusNext ==
  \/ StatusRequest
  \/ \E i \in 1..MaxProbes : ProbeDone(i)
  \/ \E i \in 1..MaxProbes, e \in ConnectErrors \cup OpenErrors : ProbeError(i, e)
  \/ \E i \in 1..MaxProbes : ProbeTimeout(i)
  \/ OrphanConnectFails
  \/ OrphanConnects

SpecStatus == Init /\ [][StatusNext]_vars

ControlInit == Boot(CutModes)

\* ------------------------------------------------ encoder and decoder runs
\* sanitizeText lets through \n, \t and 0x20..0x7e
Chars == {10, 72, 126}
Texts == UNION {[1..n -> Chars] : n \in 0..MaxText} \cup {Hello}
FeedLines == 0..MaxFeedLines

SmallImages == {Raster(w, h, d) : w \in {1, 8, 9}, h \in {1, 2}, d \in {0, 1, 3}}
TallImages == {Raster(1, 65535, 1), Raster(1, 65536, 1)}

JobTexts == {<<>>, Hello, <<72, 10>>, <<10, 10>>}
JobImages == {NoImage, Undecodable, Raster(8, 1, 1), Raster(9, 2, 3)}

\* offline (bit 3), near end (bits 2 and 3), waiting for recovery (bit 5)
StatusByteValues == {0, 8, 12, 32}
StatusInputs == UNION {[1..n -> StatusByteValues] : n \in 0..MaxStatusBytes}

Call(for, args) == [fn |-> "none", for |-> for, args |-> args]
Result(c, out) == [fn |-> c.for, for |-> c.for, args |-> c.args, out |-> out]

CodecInit ==
  /\ printerMode \in Modes
  /\ cutMode = "partial"
  /\ jobs = <<>>
  /\ processing = FALSE
  /\ pendingKick = FALSE
  /\ loops = {}
  /\ kicksDue = 0
  /\ ops = <<>>
  /\ orphans = [connecting |-> 0, writing |-> 0, open |-> 0]
  /\ attemptLog = <<>>
  /\ started = 1
  /\ faults = 0
  /\ restarts = 0
  /\ controls = 0
  /\ reply = NoReply
  /\ probes = <<>>
  /\ queueJobResult = [threw |-> FALSE, jobId |-> NoJob, source |-> NoJob]
  /\ repoThrows = {}
  /\ \/ \E n \in FeedLines, m \in CutModes :
          calc = Call("buildEscPosFooter", [feedLines |-> n, cutMode |-> m])
     \/ \E t \in Texts, e \in BOOLEAN :
          calc = Call("buildEscPosTextPayload", [text |-> t, allowEmpty |-> e])
     \/ \E i \in SmallImages \cup TallImages \cup {Undecodable} :
          calc = Call("buildEscPosImagePayload", [image |-> i])
     \/ \E t \in JobTexts, i \in JobImages, n \in FeedLines, m \in CutModes :
          calc = Call("buildEscPosJobPayload",
                      [text |-> t, image |-> i, feedLines |-> n, cutMode |-> m])
     \/ \E b \in StatusInputs :
          calc = Call("parseStatusBytes", [bytes |-> b])

Pending(for) == calc.fn = "none" /\ calc.for = for

CalcOnly ==
  UNCHANGED <<printerMode, jobs, processing, pendingKick, loops, kicksDue,
              ops, orphans, attemptLog, started, faults, restarts, controls,
              cutMode, reply, probes, queueJobResult, repoThrows>>

ApplyFooter ==
  /\ Pending("buildEscPosFooter")
  /\ calc' = Result(calc, buildEscPosFooter(calc.args.feedLines, calc.args.cutMode))
  /\ CalcOnly

ApplyText ==
  /\ Pending("buildEscPosTextPayload")
  /\ calc' = Result(calc, buildEscPosTextPayload(calc.args.text, calc.args.allowEmpty))
  /\ CalcOnly

ApplyImage ==
  /\ Pending("buildEscPosImagePayload")
  /\ calc' = Result(calc, buildEscPosImagePayload(calc.args.image))
  /\ CalcOnly

ApplyJob ==
  /\ Pending("buildEscPosJobPayload")
  /\ calc' = Result(calc, buildEscPosJobPayload(calc.args.text, calc.args.image,
                                                calc.args.feedLines, calc.args.cutMode))
  /\ CalcOnly

ApplyParse ==
  /\ Pending("parseStatusBytes")
  /\ calc' = Result(calc, parseStatusBytes(calc.args.bytes))
  /\ CalcOnly

CodecNext ==
  \/ ApplyFooter
  \/ ApplyText
  \/ ApplyImage
  \/ ApplyJob
  \/ ApplyParse

SpecCodec == CodecInit /\ [][CodecNext]_vars

\* the status read of a control operation, the answer arriving in chunks
ReadChunks == {<<18>>, <<30, 18>>, <<18, 18, 18>>, <<18, 18, 18, 18, 22>>}

ReadNext ==
  \/ ControlRequest("status")
  \/ OpStart
  \/ EthConnected
  \/ EthRequestWritten
  \/ \E chunk \in ReadChunks : EthReadDone(chunk)
  \/ EthReadClosed
  \/ \E e \in ReadErrors : EthReadError(e)
  \/ EthReadTimeout
  \/ BackoffDone

SpecRead == EthernetInit /\ [][ReadNext]_vars

\* prints and controls sharing the operation queue of one Ethernet client
OperationNext ==
  \/ Submit
  \/ HandlerKick
  \/ ProcessJobResume
  \/ LoopResume
  \/ ControlRequest("feed")
  \/ OpStart
  \/ EthConnected
  \/ \E e \in ConnectErrors : EthConnectError(e)
  \/ EthWriteDone
  \/ EthCommandWritten
  \/ EthRequestWritten
  \/ EthReadDone(<<18, 18, 18, 18>>)
  \/ BackoffDone

SpecOperation == EthernetInit /\ [][OperationNext]_vars

\* the database starts or stops failing the calls of the worker loop
RepoChange(calls) ==
  /\ calls # repoThrows
  /\ repoThrows' = calls
  /\ started' = 0
  /\ UNCHANGED <<printerMode, jobs, processing, pendingKick, loops, kicksDue,
                 ops, orphans, attemptLog, faults, restarts, controls,
                 cutMode, reply, probes, queueJobResult, calc>>

\* the worker loop over a repository whose calls may throw
RepoNext ==
  \/ Submit
  \/ HandlerKick
  \/ ProcessJobResume
  \/ LoopResume
  \/ OpStart
  \/ EthConnected
  \/ \E e \in ConnectErrors : EthConnectError(e)
  \/ EthWriteDone
  \/ BackoffDone
  \/ \E calls \in SUBSET RepoCalls : RepoChange(calls)

SpecRepo == EthernetInit /\ [][RepoNext]_vars

\* status probes beside the prints and controls of one Ethernet client
ProbeNext ==
  \/ Submit
  \/ HandlerKick
  \/ ProcessJobResume
  \/ LoopResume
  \/ ControlRequest("feed")
  \/ OpStart
  \/ EthConnected
  \/ EthWriteDone
  \/ EthCommandWritten
  \/ EthRequestWritten
  \/ EthReadDone(<<18, 18, 18, 18>>)
  \/ StatusRequest
  \/ \E i \in 1..MaxProbes : ProbeDone(i)
  \/ \E i \in 1..MaxProbes, e \in ConnectErrors : ProbeError(i, e)

SpecProbe == EthernetInit /\ [][ProbeNext]_vars

\* Ethernet prints whose connects and writes time out, and what becomes of
\* the sockets the timed-out attempts leave behind
TimeoutNext ==
  \/ Submit
  \/ HandlerKick
  \/ ProcessJobResume
  \/ LoopResume
  \/ OpStart
  \/ EthConnected
  \/ EthConnectTimeout
  \/ EthWriteDone
  \/ EthWriteTimeout
  \/ BackoffDone
  \/ OrphanConnectFails
  \/ OrphanConnects
  \/ OrphanWrites
  \/ OrphanWriteFails

SpecTimeout == EthernetInit /\ [][TimeoutNext]_vars

SpecControl == ControlInit /\ [][ControlNext]_vars

\* One process lifetime in which the event loop runs every ready
\* continuation and timer, and the device answers every request
Transport ==
  \/ EthConnected
  \/ EthWriteDone
  \/ BackoffDone
  \/ UsbOpenDone
  \/ UsbWriteDone
  \/ UsbCloseDone
  \/ UsbDeviceOpened

\* the job queue and the print path where every failure of the Ethernet
\* transport is a timeout; the sockets left behind are not followed
LiveNext ==
  \/ Submit
  \/ HandlerKick
  \/ ProcessJobResume
  \/ LoopResume
  \/ OpStart
  \/ EthConnected
  \/ EthConnectTimeout
  \/ EthWriteDone
  \/ EthWriteTimeout
  \/ BackoffDone
  \/ UsbOpenDone
  \/ \E e \in OpenErrors : UsbOpenError(e)
  \/ UsbWriteDone
  \/ \E e \in WriteErrors : UsbWriteError(e)
  \/ UsbWriteTimeout
  \/ UsbCloseDone
  \/ UsbDeviceOpened
  \/ \E e \in OpenErrors : UsbDeviceOpenError(e)

LiveSpec ==
  /\ Init
  /\ [][LiveNext]_vars
  /\ WF_vars(HandlerKick)
  /\ WF_vars(ProcessJobResume)
  /\ WF_vars(LoopResume)
  /\ WF_vars(OpStart)
  /\ WF_vars(Transport)

\* ================================================================= claims
Terminal == {"succeeded", "failed"}
JobIds == 1..Len(jobs)
PrintsInFlight == {i \in 1..Len(ops) : ops[i].kind = "print"}
Printing == {j \in JobIds : jobs[j].status = "printing"}
Queued == {j \in JobIds : jobs[j].status = "queued"}
SameProcess == restarts' = restarts

\* C1: at most one PrinterClient.print call issued by the JobQueue is in
\* progress (called and not yet resolved or rejected) at any time, whatever
\* the interleaving of submissions and kicks.
C1_OnePrintInFlight == Cardinality(PrintsInFlight) <= 1

\* a print is awaited, another job is queued and a kick arrived meanwhile
C1_Witness ==
  /\ Cardinality(PrintsInFlight) = 1
  /\ Queued # {}
  /\ pendingKick

\* C2: jobs are claimed in insertion order and one after the other: when a
\* job has left `queued`, every job inserted before it has already reached
\* its terminal status.
C2_FifoOrder ==
  \A a, b \in JobIds :
    (a < b /\ jobs[b].status # "queued") => jobs[a].status \in Terminal

\* C3: every status change of a job is queued->printing, printing->succeeded
\* or printing->failed; terminal jobs never change and no job returns to queued.
C3_StatusMachine ==
  [][\A j \in JobIds :
       jobs'[j].status # jobs[j].status =>
         <<jobs[j].status, jobs'[j].status>> \in
           {<<"queued", "printing">>, <<"printing", "succeeded">>,
            <<"printing", "failed">>}]_vars

\* one job went through to succeeded and another through to failed
C3_Witness ==
  /\ \E j \in JobIds : jobs[j].status = "succeeded"
  /\ \E j \in JobIds : jobs[j].status = "failed"

\* C4: in every reachable state at most one persisted job has status printing.
C4_OnePrinting == Cardinality(Printing) <= 1

\* C5: when print rejects for job J, processJob records J as failed with the
\* error's stack or message, the loop stays alive, and when it resumes it
\* claims the next queued job in the same run (no exit, no new activation).
C5_FailureRecorded ==
  [][SameProcess =>
       \A l \in loops :
         /\ (l.pc = "settled" /\ l.res.isError /\ l \notin loops') =>
              /\ jobs'[l.job].status = "failed"
              /\ jobs'[l.job].error = ErrorMessage(l.res)
              /\ jobs'[l.job].error # NullError
              /\ [l EXCEPT !.pc = "resume", !.res = OkResult] \in loops'
              /\ processing'
         /\ (/\ l.pc = "resume" /\ l \notin loops'
             /\ jobs[l.job].status = "failed"
             /\ nextQueued(jobs) # NoJob) =>
              /\ jobs'[nextQueued(jobs)].status = "printing"
              /\ \E n \in loops' : n.job = nextQueued(jobs) /\ n.pc = "print"
              /\ processing'
              /\ started' = 0]_vars

\* job 1 failed and the same loop run went on to claim job 2
C5_Witness ==
  /\ Len(jobs) >= 2
  /\ jobs[1].status = "failed"
  /\ jobs[1].error.kind = "stack"
  /\ jobs[2].status = "printing"
  /\ \E i \in 1..Len(ops) : ops[i].job = 2 /\ ops[i].phase = "queued"
  /\ started = 0
  /\ restarts = 0

\* C6: in Ethernet mode a job's print makes at most 3 transport attempts; a
\* successful attempt is the last one and the job is not failed; a failed
\* job made exactly 3 attempts and carries the error of the third.
C6_RetryBound ==
  /\ [](EthernetMode =>
          \A j \in JobIds :
            /\ attemptLog[j].n <= 3
            /\ jobs[j].status = "succeeded" => attemptLog[j].last = "ok"
            /\ attemptLog[j].last = "ok" => jobs[j].status \in {"printing", "succeeded"}
            /\ jobs[j].status = "failed" =>
                 /\ attemptLog[j].n = 3
                 /\ attemptLog[j].last \notin {"ok", "none"}
                 /\ jobs[j].error = ErrorMessage(ErrorObj(attemptLog[j].last)))
  /\ [][EthernetMode =>
          \A j \in JobIds :
            attemptLog[j].last = "ok" => attemptLog'[j] = attemptLog[j]]_vars

\* two failed attempts, then the third succeeded and the job ended succeeded
C6_Witness ==
  /\ EthernetMode
  /\ \E j \in JobIds :
       /\ jobs[j].status = "succeeded"
       /\ attemptLog[j].n = 3

\* C7: no wake-up is lost.  The worker goes idle only when no queued job
\* remains, idle means processing = pendingKick = FALSE, and (every print
\* settling, every handler reaching its kick) every inserted job eventually
\* reaches succeeded or failed.
C7_NoLostWakeup ==
  /\ [](~processing => ~pendingKick)
  /\ [][(processing /\ ~processing') => nextQueued(jobs') = NoJob]_vars
  /\ \A j \in 1..MaxJobs :
       (Len(jobs) >= j) ~> (Len(jobs) >= j /\ jobs[j].status \in Terminal)

\* the worker is idle again after it processed every submitted job
C7_Witness ==
  /\ Len(jobs) = MaxJobs
  /\ \A j \in JobIds : jobs[j].status \in Terminal
  /\ ~processing /\ ~pendingKick
  /\ kicksDue = 0

\* C8: a kick while the loop is active only sets pendingKick: it starts no
\* loop and no print; at most one processLoop is alive (exactly when
\* processing is set), and one step starts at most one activation (one
\* restart after an exit, however many kicks).
C8_KickCoalesced ==
  /\ [](Cardinality(loops) <= 1 /\ started <= 1 /\ (processing <=> loops # {}))
  /\ [][(processing /\ kicksDue' < kicksDue /\ SameProcess) =>
          /\ pendingKick'
          /\ processing'
          /\ started' = 0
          /\ loops' = loops /\ ops' = ops /\ jobs' = jobs]_vars

\* the flag is already set, the loop is still active and one more kick is due
C8_Witness ==
  /\ processing
  /\ pendingKick
  /\ kicksDue > 0
  /\ Cardinality(loops) = 1

\* C9: every suspension of a print on the device (open/connect, write,
\* close) has a timeout armed, so the print settles even if the device
\* never answers.
DevicePhases == {"connect", "write", "writeCmd", "writeReq", "read", "open", "close"}

C9_AwaitsBounded ==
  (Active /\ HeadOp.phase \in DevicePhases) => HeadOp.timer # "none"

\* C10: once the operations have settled, no socket or device handle one
\* of them opened is still open.
C10_HandlesClosed ==
  (ops = <<>>) =>
    (orphans.connecting = 0 /\ orphans.writing = 0 /\ orphans.open = 0)

\* C11: printer.control(command) never rejects: every failure, Ethernet
\* connect, write and status-read errors and timeouts included, reaches
\* the caller as a resolved {confirmed: false, error}.
C11_ControlNeverRejects == ~reply.rejected

TransportErrors ==
  ConnectErrors \cup WriteErrors \cup ReadErrors \cup
    {"ethernet connect timeout", "ethernet write timeout",
     "socket closed before status response", "ethernet status read timeout"}

\* C11, as the code has it: control rejects only in Ethernet mode, once the
\* third attempt has failed, with that attempt's error; the failures it
\* finds itself resolve {confirmed: false, error}; and the handler of
\* POST /api/control/* answers a rejection with 502 {confirmed: false,
\* error} and a resolution with the result itself.
C11_RejectsAfterRetries ==
  /\ reply.rejected =>
       /\ EthernetMode
       /\ reply.attempt = DEFAULT_RETRIES
       /\ reply.error \in TransportErrors
       /\ reply.response.code = 502
       /\ reply.response.body = ControlResult(FALSE, FALSE, NoReport, reply.error)
  /\ (reply.cmd # "none" /\ ~reply.rejected) =>
       /\ reply.response = [code |-> 200, body |-> reply.value]
       /\ ~reply.value.confirmed => reply.value.error # ""

\* a control operation was rejected after its third attempt timed out
C11_Witness ==
  /\ reply.rejected
  /\ reply.cmd = "feed"
  /\ reply.error = "ethernet status read timeout"
  /\ reply.response.code = 502

\* C12: for an Ethernet control operation that obtained a status report:
\* feed and cut are confirmed exactly when the report is ok, and when it is
\* not the result carries confirmed = false, the report and an error
\* message; a status query is confirmed whatever the report says.
C12_ConfirmedIffOk ==
  (reply.cmd # "none" /\ reply.value.hasStatus) =>
    /\ EthernetMode /\ ~reply.rejected
    /\ reply.value.status \in {parseStatusBytes(b) : b \in StatusResponses}
    /\ reply.cmd \in {"feed", "cut"} =>
         /\ reply.value.confirmed <=> reply.value.status.ok
         /\ ~reply.value.status.ok => reply.value.error # ""
    /\ reply.cmd = "status" =>
         /\ reply.value.confirmed
         /\ reply.value.error = ""

\* a status query was confirmed although the printer reported an error
C12_Witness ==
  /\ reply.cmd = "status"
  /\ reply.value.hasStatus
  /\ ~reply.value.status.ok
  /\ reply.value.confirmed

\* C13: in USB mode every control command resolves to the one fixed
\* {confirmed: false, error} result: it is never rejected, never retried,
\* and the operation never opens or writes the device.
C13_UsbControlUnsupported ==
  ~EthernetMode =>
    /\ reply.cmd # "none" =>
         /\ ~reply.rejected
         /\ reply.value = controlUnsupported
         /\ reply.attempt = 0
    /\ \A i \in 1..Len(ops) :
         ops[i].kind = "control" =>
           ops[i].phase = "queued" /\ ops[i].sock = "none" /\ ops[i].attempt = 0
    /\ faults = 0 /\ orphans = [connecting |-> 0, writing |-> 0, open |-> 0]

\* a cut was answered in USB mode
C13_Witness ==
  /\ ~EthernetMode
  /\ reply.cmd = "cut"
  /\ reply.value = controlUnsupported
  /\ controls = MaxControls

\* C14: printer.status() never rejects, on either transport: a probe that
\* fails or times out resolves {connected: false} with the error's text in
\* details.error, a probe that succeeds resolves {connected: true}.
C14_StatusNeverRejects ==
  \A i \in 1..Len(probes) :
    probes[i].phase = "settled" =>
      /\ ~probes[i].result.rejected
      /\ probes[i].result.connected <=> ~probes[i].outcome.isError
      /\ probes[i].outcome.isError =>
           /\ probes[i].result.error = probes[i].outcome.message
           /\ probes[i].result.error # ""
      /\ ~probes[i].outcome.isError => probes[i].result.error = ""

\* one probe timed out and another one failed with an error
C14_Witness ==
  /\ Len(probes) >= 2
  /\ probes[1].phase = "settled" /\ probes[2].phase = "settled"
  /\ probes[1].outcome.message \in {"ethernet connect timeout", "usb connect timeout"}
  /\ probes[2].outcome.message \in ConnectErrors \cup OpenErrors
  /\ ~probes[1].result.connected /\ ~probes[2].result.connected

Done(for) == calc.fn = for
TrailingNewlines(bytes) ==
  Cardinality({k \in 1..Len(bytes) : \A j \in k..Len(bytes) : bytes[j] = 10})
Terminated(text) == IF endsWithNewline(text) THEN text ELSE text \o LF

\* C15: for every feed-line count N >= 0 and every cut mode the footer is
\* N bytes 0x0A followed by nothing (none), 1D 56 00 (full) or 1D 56 01
\* (partial), never by both cut commands.
C15_FooterBytes ==
  Done("buildEscPosFooter") =>
    LET n == calc.args.feedLines
        m == calc.args.cutMode
    IN  /\ Len(calc.out) = n + (IF m = "none" THEN 0 ELSE 3)
        /\ \A i \in 1..n : calc.out[i] = 10
        /\ m = "full" => SubSeq(calc.out, n + 1, n + 3) = <<29, 86, 0>>
        /\ m = "partial" => SubSeq(calc.out, n + 1, n + 3) = <<29, 86, 1>>

\* a full cut after the largest feed
C15_Witness ==
  /\ Done("buildEscPosFooter")
  /\ calc.args.feedLines = MaxFeedLines
  /\ calc.args.cutMode = "full"
  /\ Len(calc.out) = MaxFeedLines + 3

\* C16: for every printable text T the text payload ends with exactly one
\* line terminator byte 0x0A, whether or not T ended with one already, also
\* when T ends with several newlines.
C16_ExactlyOneTerminator ==
  (Done("buildEscPosTextPayload") /\ Len(calc.args.text) > 0) =>
    TrailingNewlines(calc.out) = 1

\* C16, as the code has it: the text payload of a printable, non-empty T is
\* T itself when T ends with a newline and T followed by one 0x0A when it
\* does not; it always ends with 0x0A, and the newlines T ends with are
\* kept, so T ending with k >= 1 newlines gives k trailing 0x0A bytes.
C16_TerminatorEnsured ==
  (Done("buildEscPosTextPayload") /\ Len(calc.args.text) > 0) =>
    LET T == calc.args.text
        k == TrailingNewlines(T)
    IN  /\ SubSeq(calc.out, 1, Len(T)) = T
        /\ Len(calc.out) = Len(T) + (IF k = 0 THEN 1 ELSE 0)
        /\ calc.out[Len(calc.out)] = 10
        /\ TrailingNewlines(calc.out) = (IF k = 0 THEN 1 ELSE k)

\* a text that ends with two newlines was encoded unchanged
C16_Witness ==
  /\ Done("buildEscPosTextPayload")
  /\ calc.args.text = <<72, 10, 10>>
  /\ calc.out = <<72, 10, 10>>

\* C17: the job payload is the text bytes (if any), then the image bytes
\* (if any), then the footer; with empty or absent text there are no text
\* bytes, no placeholder newline; "Hello", 2 feed lines and a partial cut
\* give "Hello\n" 0A 0A 1D 56 01.
C17_CompositeOrder ==
  (Done("buildEscPosJobPayload") /\ ~calc.out.threw) =>
    LET a == calc.args
        textBytes == IF Len(a.text) = 0 THEN <<>> ELSE Terminated(a.text)
        imageBytes == IF a.image.given
                        THEN buildEscPosImagePayload(a.image).payload ELSE <<>>
        footer == buildEscPosFooter(a.feedLines, a.cutMode)
        out == calc.out.payload
    IN  /\ Len(out) = Len(textBytes) + Len(imageBytes) + Len(footer)
        /\ SubSeq(out, 1, Len(textBytes)) = textBytes
        /\ SubSeq(out, Len(textBytes) + 1, Len(textBytes) + Len(imageBytes))
             = imageBytes
        /\ SubSeq(out, Len(out) - Len(footer) + 1, Len(out)) = footer
        /\ (a.text = Hello /\ ~a.image.given /\ a.feedLines = 2
              /\ a.cutMode = "partial") =>
             out = <<72, 101, 108, 108, 111, 10, 10, 10, 29, 86, 1>>

\* an image without text was encoded, with feed lines and a cut after it
C17_Witness ==
  /\ Done("buildEscPosJobPayload")
  /\ calc.args.text = <<>>
  /\ calc.args.image = Raster(9, 2, 3)
  /\ calc.args.feedLines = 2
  /\ calc.args.cutMode = "partial"
  /\ calc.out.payload = buildEscPosImagePayload(Raster(9, 2, 3)).payload
                          \o <<10, 10, 29, 86, 1>>

\* C18: for any image, whatever its resized width and height, the payload
\* starts with 1D 76 30 00 and two little-endian 16-bit fields that decode
\* to the bytes per row ceil(width/8) and the height of the resized image,
\* and its length is 8 + ceil(width/8) x height.
C18_HeaderRoundTrip ==
  (Done("buildEscPosImagePayload") /\ ~calc.out.threw) =>
    LET image == calc.args.image
        p == calc.out.payload
    IN  /\ SubSeq(p, 1, 4) = <<29, 118, 48, 0>>
        /\ p[5] + 256 * p[6] = bytesPerRow(image.width)
        /\ p[7] + 256 * p[8] = image.height
        /\ Len(p) = 8 + bytesPerRow(image.width) * image.height

\* C19: parseStatusBytes answers every input of 0 to 4 or more bytes with
\* a report of exactly 4 classes in the order printer, roll paper sensor,
\* offline cause, error cause, a missing byte decoded as 0; ok is true
\* exactly when no entry of any class has the level error: a warning does
\* not clear it, and [0x08, 0, 0, 0] gives ok = false.
C19_StatusReport ==
  Done("parseStatusBytes") =>
    LET b == calc.args.bytes
        r == calc.out
        byteAt(i) == IF i <= Len(b) THEN b[i] ELSE 0
        levels == {r.statuses[i].statuses[k].status :
                     i \in {1, 2, 3, 4}, k \in {1, 2}}
                    \cup {r.statuses[i].statuses[k].status :
                            i \in {1, 3, 4}, k \in {3, 4}}
    IN  /\ Len(r.statuses) = 4
        /\ [i \in 1..4 |-> r.statuses[i].className] =
             <<"PrinterStatus", "RollPaperSensorStatus", "OfflineCauseStatus",
               "ErrorCauseStatus">>
        /\ \A i \in 1..4 : r.statuses[i].byte = byteAt(i)
        /\ r.raw = SubSeq(b, 1, Min(Len(b), 4))
        /\ r.ok <=> "error" \notin levels
        /\ b = <<8, 0, 0, 0>> => ~r.ok
        /\ b = <<32>> => (r.ok /\ "warning" \in levels)

\* one byte only, and it holds a warning: four classes and ok all the same
C19_Witness ==
  /\ Done("parseStatusBytes")
  /\ calc.args.bytes = <<32>>
  /\ Len(calc.out.statuses) = 4
  /\ calc.out.ok

\* C20: when building the payload of a submitted or reprinted job fails
\* (the image cannot be decoded) the request is rejected and the job never
\* reaches the queue: no row is inserted and no kick follows.
C20_RejectedNotQueued ==
  [][/\ queueJobResult'.threw =>
          /\ Len(jobs') = Len(jobs)
          /\ kicksDue' <= kicksDue
     /\ (queueJobResult'.threw /\ ~queueJobResult.threw) =>
          /\ jobs' = jobs
          /\ kicksDue' = kicksDue
          /\ ops' = ops /\ loops' = loops
          /\ processing' = processing /\ pendingKick' = pendingKick]_vars

\* a submission was rejected while an earlier job is printing
C20_Witness ==
  /\ queueJobResult.threw
  /\ Len(jobs) = 1
  /\ jobs[1].status = "printing"
  /\ kicksDue = 0

\* C21: resubmitting job J inserts one new row whose id is greater than
\* every existing id, with status queued, no error and J's text and image,
\* and leaves every existing row, J's included, as it was; a failed row is
\* never changed again and no print operation is ever pending for it, so a
\* failed job is printed again only through such a new row.
C21_ReprintIsNewJob ==
  /\ [][/\ (queueJobResult'.source # NoJob /\ Len(jobs') > Len(jobs)) =>
             LET J == queueJobResult'.source
                 new == queueJobResult'.jobId
             IN  /\ J \in 1..Len(jobs)
                 /\ new = Len(jobs') /\ Len(jobs') = Len(jobs) + 1
                 /\ \A id \in 1..Len(jobs) : new > id /\ jobs'[id] = jobs[id]
                 /\ jobs'[new].status = "queued"
                 /\ jobs'[new].error = NullError
                 /\ jobs'[new].text = jobs[J].text
                 /\ jobs'[new].image = jobs[J].image
        /\ \A id \in 1..Len(jobs) :
             jobs[id].status = "failed" => jobs'[id] = jobs[id]]_vars
  /\ [](\A i \in 1..Len(ops) :
          ops[i].kind = "print" => jobs[ops[i].job].status # "failed")

\* a failed job with an image was resubmitted: it is still failed and a
\* second row carrying its image is queued
C21_Witness ==
  /\ Len(jobs) = 2
  /\ queueJobResult = [threw |-> FALSE, jobId |-> 2, source |-> 1]
  /\ jobs[1].status = "failed"
  /\ jobs[1].image.given
  /\ jobs[2].status = "queued"
  /\ jobs[2].image = jobs[1].image

\* C22: a job's error field is non-null only if its status is failed: it
\* is null while the job is queued, printing or succeeded, and a failed job
\* carries the (non-empty) message of the error that failed it.
C22_ErrorOnlyWhenFailed ==
  \A id \in JobIds :
    /\ jobs[id].error # NullError => jobs[id].status = "failed"
    /\ jobs[id].status = "failed" =>
         /\ jobs[id].error # NullError
         /\ jobs[id].error.of # ""

\* one job failed with its error recorded, a later one succeeded without
C22_Witness ==
  /\ Len(jobs) >= 2
  /\ jobs[1].status = "failed" /\ jobs[1].error # NullError
  /\ jobs[2].status = "succeeded" /\ jobs[2].error = NullError

\* C23: a control command makes a single transport attempt per call and
\* its feed or cut bytes reach the printer at most once per call (the
\* network retry is for the Ethernet print path only).
C23_ControlSentOnce ==
  \A i \in 1..Len(ops) :
    ops[i].kind = "control" => ops[i].attempt = 0 /\ ops[i].sent <= 1

\* C24: a connect or write that exceeds its timeout is cancelled: once the
\* timeout error has been surfaced the abandoned attempt does no more
\* device I/O, so no write of an abandoned socket ever completes (beside
\* or after the writes of the next attempt or the next job).
C24_TimedOutCancelled ==
  [][~(orphans'.writing < orphans.writing /\ orphans'.open > orphans.open)]_vars

ReadFailures ==
  {"socket closed before status response", "ethernet status read timeout"}
    \cup ReadErrors

\* C26: a status report is decoded only from exactly 4 received bytes: the
\* chunks that arrive are accumulated and the first 4 bytes are what is
\* decoded; when the peer closes, the socket fails or the read times out
\* before 4 bytes have arrived, the read fails with that error and no
\* report is decoded.
C26_FourBytesOnly ==
  /\ [](reply.value.hasStatus =>
          Len(reply.value.status.raw) = 4 /\ Len(reply.value.status.statuses) = 4)
  /\ [][(Active /\ HeadOp.kind = "control" /\ HeadOp.phase = "read") =>
          /\ Len(HeadOp.buffer) < 4
          /\ (reply' # reply /\ reply'.value.hasStatus) =>
               \E chunk \in ReadChunks \cup StatusResponses :
                 LET all == HeadOp.buffer \o chunk
                 IN  /\ Len(all) >= 4
                     /\ reply'.value.status.raw = <<all[1], all[2], all[3], all[4]>>
          /\ (reply' # reply /\ ~reply'.value.hasStatus) =>
               reply'.rejected /\ reply'.error \in ReadFailures
          /\ (reply' = reply /\ Len(ops') > 0 /\ ops'[1].phase = "backoff") =>
               ops'[1].err.message \in ReadFailures
          /\ (reply' = reply /\ Len(ops') > 0 /\ ops'[1].phase = "read") =>
               \/ ops'[1].buffer = HeadOp.buffer
               \/ \E chunk \in ReadChunks :
                    /\ ops'[1].buffer = HeadOp.buffer \o chunk
                    /\ Len(ops'[1].buffer) < 4]_vars

\* three bytes had arrived and a chunk of two completed the answer: the
\* report was decoded from the first four
C26_Witness ==
  /\ reply.cmd = "status"
  /\ reply.value.hasStatus
  /\ reply.value.status.raw = <<18, 30, 18, 30>>

\* C27: print and control calls on the client exclude each other and run
\* in call order: only the oldest unsettled operation is ever under way
\* (connecting, writing, reading or sleeping before a retry), every later
\* one waits, the chain only grows at its end and shrinks at its head, and
\* when an operation is rejected the next one is still there to start.
C27_OneAtATime ==
  /\ [](\A i \in 2..Len(ops) : ops[i].phase = "queued")
  /\ [][\/ ops' = ops
        \/ \E op \in {NewOp("print", j, "none") : j \in JobIds}
                     \cup {NewOp("control", NoJob, c) : c \in ControlCommands} :
             ops' = Append(ops, op)
        \/ /\ Len(ops) > 0 /\ Len(ops') = Len(ops)
           /\ Tail(ops') = Tail(ops)
           /\ ops'[1].kind = HeadOp.kind /\ ops'[1].job = HeadOp.job
        \/ /\ Len(ops) > 0 /\ ops' = Tail(ops)
           /\ HeadOp.phase # "queued" \/ cutMode = "none"
           /\ Len(ops') > 0 => ops'[1].phase = "queued"]_vars

\* a print failed on its last attempt while a feed waited behind it, and
\* the feed is now under way
C27_Witness ==
  /\ Len(jobs) >= 1 /\ jobs[1].status = "failed"
  /\ Active
  /\ HeadOp.kind = "control" /\ HeadOp.cmd = "feed"
  /\ HeadOp.phase = "writeCmd"
  /\ Len(ops) = 2

\* the jobs left `printing` by a process that stopped: no loop of the
\* running process is working on them
Stale == {id \in Printing : \A l \in loops : l.job # id}

\* C28: a job that is `printing` when the process stops is never picked up
\* again: start() only claims queued jobs, so the job stays `printing`
\* with its row unchanged and no print is issued for it, while the jobs
\* that were queued are claimed at startup without a new submission.
C28_StalePrintingStays ==
  /\ [](\A id \in Stale : \A i \in 1..Len(ops) : ops[i].job # id)
  /\ [][/\ \A id \in Stale : jobs'[id] = jobs[id] /\ id \in Stale'
        /\ restarts' > restarts =>
             /\ \A id \in Printing : jobs'[id] = jobs[id] /\ id \in Stale'
             /\ Queued # {} =>
                  LET next == CHOOSE id \in Queued : \A k \in Queued : id <= k
                  IN  /\ jobs'[next].status = "printing"
                      /\ processing'
                      /\ \E i \in 1..Len(ops') :
                           ops'[i].kind = "print" /\ ops'[i].job = next]_vars

\* job 1 was printing when the process stopped; after the restart job 2,
\* queued then, has been printed and job 1 is still `printing`
C28_Witness ==
  /\ restarts = 1
  /\ Len(jobs) = 2
  /\ 1 \in Stale
  /\ jobs[2].status = "succeeded"
  /\ ops = <<>> /\ ~processing

C30_StatusBesideQueue ==
  /\ [](\A i \in 1..Len(probes) :
          probes[i].phase # "settled" => ENABLED ProbeDone(i))
  /\ [](Len(probes) < MaxProbes => ENABLED StatusRequest)
  /\ [][probes' # probes =>
          /\ ops' = ops /\ loops' = loops /\ jobs' = jobs
          /\ processing' = processing /\ reply' = reply]_vars

\* a probe is connecting while the print in flight has its own
\* connection open and a control waits behind it
C30_Witness ==
  /\ Len(ops) = 2
  /\ HeadOp.kind = "print" /\ HeadOp.sock = "open"
  /\ ops[2].kind = "control" /\ ops[2].phase = "queued"
  /\ \E i \in 1..Len(probes) :
       probes[i].phase = "connect" /\ probes[i].timer = "connect"
  /\ \E i \in 1..Len(probes) :
       probes[i].phase = "settled" /\ probes[i].result.connected

====
